---- MODULE Spec2Model ----
(***************************************************************************)
(* Resilience supervisor of micropython-gamename-utilities (src/utils.py): *)
(* the fault log store, the crash-loop guard, the fault handler, the       *)
(* connectivity retry loop and the age-based purge.                        *)
(*                                                                         *)
(* The flash file system is a function from file names to [mtime, data].   *)
(* A file name is a sequence of text tokens: the tokens are joined by '-'  *)
(* and the last one, the extension, by '.', so that                        *)
(* <<"1970","1","1","18","0","2","traceback","log">> is                    *)
(* "1970-1-1-18-0-2-traceback.log" and <<"boot","log">> is "boot.log".     *)
(***************************************************************************)
EXTENDS Integers, Sequences, FiniteSets, TLC

VARIABLES
    files,      \* the flash file system: name -> [mtime, data]
    now,        \* time.time(): the clock, in whole seconds
    pc,         \* position of the single thread of control
    boots,      \* number of boots so far (the current one included)
    resets,     \* number of reset() calls handle_exception has made, over all boots
    args,       \* arguments of the running call
    tb_msg,     \* handle_exception's local tb_msg / log_traceback's output
    trace,      \* what the running call has done so far, in order
    posts,      \* the requests handed to requests.post by the running call
    openResp,   \* responses of requests.post not closed yet
    led,        \* the on-board LED pin
    toggles,    \* led.toggle() calls made by flash_led in the running call
    err,        \* the exception that left the running call, or "none"
    prior,      \* the directory as it was when the running call started
    locals,     \* local variables of the running call
    wlan,       \* the network handle passed to wifi_connect
    out         \* what the running call returned or reported, "none" before

vars == <<files, now, pc, boots, resets, args, tb_msg, trace, posts, openResp,
          led, toggles, err, prior, locals, wlan, out>>

\* state that only handle_exception uses
supVars == <<boots, resets, tb_msg, posts, openResp, toggles>>

-----------------------------------------------------------------------------
(* Bounds of the model *)

MaxClock == 3
MaxBoots == 4

(* Program constants *)

MAX_EXCEPTION_RESETS_ALLOWED == 3
TRACE_LOG_MAX_KEEP_TIME == 48
FlashCount == 3000
FlashInterval == 3

-----------------------------------------------------------------------------
(* Inputs *)

\* Readings of time.time(): MaxClock + 1 consecutive seconds, one day after
\* the epoch so that local time is not negative
ClockBase == 24 * 3600
ClockValues == {ClockBase + k : k \in 0..MaxClock}
Exceptions == {"ValueError"}
Hostnames == {"pico-a"}
NotifyUrls == {"http://ops/notify"}

\* Files that are on the device before the first boot and are not written by
\* this code: program text and logs of other origin.
ForeignNames == {<<"main", "py">>, <<"boot", "log">>, <<"ota", "log">>}

NoArgs == [exc |-> "none", hostname |-> "none", notify_url |-> "none"]
NoLocals == [counter |-> 0]
NoWlan == [active |-> FALSE, connects |-> <<>>, polls |-> 0, firstTrue |-> 0]

-----------------------------------------------------------------------------
(* Pure helpers *)

\* Offset from UTC for CST, in seconds (-6 * 3600)
CST_OFFSET_SECONDS == 0 - 6 * 3600

\* Offset from UTC for CDT, in seconds (-5 * 3600)
CDT_OFFSET_SECONDS == 0 - 5 * 3600

\* The Gregorian calendar of time.gmtime, for days counted from 1970-01-01
is_leap(y) == y % 4 = 0 /\ (y % 100 # 0 \/ y % 400 = 0)

\* days from 1970-01-01 to the first day of year y
days_to_year(y) ==
    365 * (y - 1970) + ((y - 1969) \div 4) - ((y - 1901) \div 100)
        + ((y - 1601) \div 400)

\* days from 1970-01-01 to the first day of month m of year y; m = 13 is the
\* first day of the next year
days_to_month(y, m) ==
    days_to_year(y)
        + <<0, 31, 59, 90, 120, 151, 181, 212, 243, 273, 304, 334, 365>>[m]
        + (IF m > 2 /\ is_leap(y) THEN 1 ELSE 0)

\* the date <<year, month, mday>> of day number z: the year and the month
\* that hold the day, and the day's place in the month
civil_from_days(z) ==
    CHOOSE ymd \in UNION {
        {<<y, m, z - days_to_month(y, m) + 1>> :
            m \in {k \in 1..12 : /\ days_to_month(y, k) <= z
                                 /\ z < days_to_month(y, k + 1)}} :
        y \in {j \in (1970 + (z \div 366))..(1970 + (z \div 365)) :
                  /\ days_to_year(j) <= z
                  /\ z < days_to_year(j + 1)}} : TRUE

\* time.gmtime(t)[0:6]: <<year, month, mday, hour, minute, second>>
gmtime(t) ==
    civil_from_days(t \div 86400)
        \o <<(t % 86400) \div 3600, (t % 3600) \div 60, t % 60>>

\* RTC().datetime() when the clock reads t: <<year, month, day, weekday,
\* hours, minutes, seconds, subseconds>>, Monday = 0; Python's index k is
\* position k + 1 here
RTC_datetime(t) ==
    LET g == gmtime(t)
    IN  <<g[1], g[2], g[3], ((t \div 86400) + 3) % 7, g[4], g[5], g[6], 0>>

\* on_us_dst(): months 4..10; in March the days after
\* 14 - (datetime()[6] + 1 - day) % 7; in November the days up to
\* 7 - (datetime()[6] + 1 - day) % 7. datetime()[6] is the seconds field.
on_us_dst(t) ==
    \E datetime \in {RTC_datetime(t)} :
        LET current_month == datetime[2]
            current_day   == datetime[3]
            second_sunday == 14 - ((datetime[7] + 1 - current_day) % 7)
            first_sunday  == 7 - ((datetime[7] + 1 - current_day) % 7)
        IN  IF 3 < current_month /\ current_month < 11 THEN TRUE
            ELSE IF current_month = 3 THEN current_day > second_sunday
            ELSE IF current_month = 11 THEN current_day <= first_sunday
            ELSE FALSE

\* time.gmtime(time.time() + current_offset_seconds)[0:6]
get_now(t) ==
    LET current_offset_seconds ==
            IF on_us_dst(t) THEN CDT_OFFSET_SECONDS ELSE CST_OFFSET_SECONDS
    IN  gmtime(t + current_offset_seconds)

\* f'{year}-{month}-{day_of_month}-{hour}-{minute}-{second}': the fields
\* printed in decimal without padding, joined by '-'
current_local_time_to_string(t) ==
    [i \in 1..6 |-> ToString(get_now(t)[i])]

\* current_local_time_to_string() + '-' + 'traceback.log'
traceback_file(t) == current_local_time_to_string(t) \o <<"traceback", "log">>

\* time.sleep(0.5): the clock's whole seconds stay or go one up
HalfSecondTicks == {0, 1}

\* sys.print_exception(exception, stream); stream.getvalue()
print_exception(exc) == <<"Traceback", "(most recent call last):", exc>>

\* how much of the text f.write() has put into the file when it returns or raises
WrittenCounts == 0..Len(print_exception("ValueError"))

\* json.dumps({"machine": hostname, "traceback": tb_msg})
json_dumps(hostname, tb) == <<<<"machine", hostname>>, <<"traceback", tb>>>>

\* file.endswith('.log')
endswith_log(name) == Len(name) >= 1 /\ name[Len(name)] = "log"

\* A fault record: a file named <timestamp>-traceback.log
IsFaultRecord(name) ==
    /\ Len(name) >= 2
    /\ name[Len(name)] = "log"
    /\ name[Len(name) - 1] = "traceback"

FaultRecords(fs) == {n \in DOMAIN fs : IsFaultRecord(n)}

\* the loop of max_reset_attempts_exceeded: log_file_count
log_file_count(fs) == Cardinality({n \in DOMAIN fs : endswith_log(n)})

max_reset_attempts_exceeded(fs, max_exception_resets) ==
    log_file_count(fs) > max_exception_resets

\* the open mode mutated: open(name, 'a') keeps what an existing file holds
write_file_append(fs, name, t, data) ==
    [n \in DOMAIN fs \cup {name} |->
        IF n = name
        THEN [mtime |-> t,
              data |-> IF name \in DOMAIN fs THEN fs[name].data \o data ELSE data]
        ELSE fs[n]]

\* open(name, 'w') followed by f.write(data): creates or replaces the file
write_file(fs, name, t, data) ==
    [n \in DOMAIN fs \cup {name} |->
        IF n = name THEN [mtime |-> t, data |-> data] ELSE fs[n]]

-----------------------------------------------------------------------------
(* The fault handler, one boot after another *)

InitialStores ==
    {[n \in S |-> [mtime |-> 0, data |-> <<>>]] :
        S \in {{<<"main", "py">>}, {<<"main", "py">>, <<"boot", "log">>}}}

Init ==
    /\ files \in InitialStores
    /\ now = ClockBase
    /\ pc = "running"
    /\ boots = 1
    /\ resets = 0
    /\ args = NoArgs
    /\ tb_msg = <<>>
    /\ trace = <<>>
    /\ posts = <<>>
    /\ openResp = 0
    /\ led = "off"
    /\ toggles = 0
    /\ err = "none"
    /\ prior = files
    /\ locals = NoLocals
    /\ wlan = NoWlan
    /\ out = "none"

\* The top-level fault boundary intercepts a fault and calls
\* handle_exception(exc, hostname, notify_url); the clock reads t.
Fault(exc, hostname, notify_url, t) ==
    /\ pc = "running"
    /\ boots <= MaxBoots
    /\ now' = t
    /\ args' = [exc |-> exc, hostname |-> hostname, notify_url |-> notify_url]
    /\ prior' = files
    /\ trace' = <<>>
    /\ posts' = <<>>
    /\ pc' = "h_tprint"
    /\ UNCHANGED <<files, boots, resets, tb_msg, openResp, led, toggles, err,
                   locals, wlan, out>>

\* tprint("-C R A S H-")
TprintCrash ==
    /\ pc = "h_tprint"
    /\ trace' = Append(trace, "tprint_crash")
    /\ pc' = "lt_print"
    /\ UNCHANGED <<files, now, boots, resets, args, tb_msg, posts, openResp,
                   led, toggles, err, prior,
                   locals, wlan, out>>

\* print(output) moved after the write: nothing is printed before it
LogTracebackPrintLate ==
    /\ pc = "lt_print"
    /\ tb_msg' = print_exception(args.exc)
    /\ locals' = [traceback_file |-> traceback_file(now)]
    /\ pc' = "lt_write"
    /\ UNCHANGED <<files, now, boots, resets, args, trace, posts, openResp, led,
                   toggles, err, prior, wlan, out>>

\* log_traceback, up to print(output): the text is captured, the record's
\* name is made from the clock as it reads now, the text is printed
LogTracebackPrint ==
    /\ pc = "lt_print"
    /\ tb_msg' = print_exception(args.exc)
    /\ locals' = [traceback_file |-> traceback_file(now)]
    /\ trace' = Append(trace, "print_output")
    /\ pc' = "lt_write"
    /\ UNCHANGED <<files, now, boots, resets, args, posts, openResp, led,
                   toggles, err, prior, wlan, out>>

\* log_traceback: time.sleep(0.5); with open(traceback_file, 'w') as f:
\* f.write(output). The half second of sleep carries the clock into the next
\* second (tick = 1) or not (tick = 0); the file is stamped with the clock at
\* the write. open and write can each raise OSError; after a successful open
\* the file exists, and a write that raises leaves the first `written` parts
\* of the text in it, fewer than all.
LogTracebackWrite(outcome, tick, written) ==
    /\ pc = "lt_write"
    /\ now' = now + tick
    /\ \/ /\ outcome = "ok"
          /\ written = Len(tb_msg)
          /\ files' = write_file(files, locals.traceback_file, now', tb_msg)
          /\ trace' = Append(trace, "write")
          /\ pc' = "h_guard"
          /\ err' = err
       \/ /\ outcome = "open_raises"
          /\ written = 0
          /\ files' = files
          /\ trace' = Append(trace, "write_failed")
          /\ pc' = "raised"
          /\ err' = "OSError"
       \/ /\ outcome = "write_raises"
          /\ written < Len(tb_msg)
          /\ files' = write_file(files, locals.traceback_file, now',
                                 SubSeq(tb_msg, 1, written))
          /\ trace' = Append(trace, "write_failed")
          /\ pc' = "raised"
          /\ err' = "OSError"
    /\ UNCHANGED <<boots, resets, args, tb_msg, posts, openResp, led,
                   toggles, prior,
                   locals, wlan, out>>

\* if max_reset_attempts_exceeded(): ... else: ...
Guard ==
    /\ pc = "h_guard"
    /\ trace' = Append(trace, "guard")
    /\ pc' = IF max_reset_attempts_exceeded(files, MAX_EXCEPTION_RESETS_ALLOWED)
             THEN "h_post" ELSE "h_reset"
    /\ UNCHANGED <<files, now, boots, resets, args, tb_msg, posts, openResp,
                   led, toggles, err, prior,
                   locals, wlan, out>>

\* resp = requests.post(notify_url, data=json.dumps(traceback_data))
Post(ok) ==
    /\ pc = "h_post"
    /\ posts' = Append(posts, [url |-> args.notify_url,
                               data |-> json_dumps(args.hostname, tb_msg)])
    /\ trace' = Append(trace, IF ok THEN "post" ELSE "post_raised")
    /\ IF ok
       THEN /\ openResp' = openResp + 1
            /\ pc' = "h_close"
            /\ err' = err
       ELSE /\ openResp' = openResp
            /\ pc' = "raised"
            /\ err' = "OSError"
    /\ UNCHANGED <<files, now, boots, resets, args, tb_msg, led, toggles, prior,
                   locals, wlan, out>>

\* resp.close()
Close ==
    /\ pc = "h_close"
    /\ openResp' = openResp - 1
    /\ trace' = Append(trace, "close")
    /\ pc' = "h_flash"
    /\ UNCHANGED <<files, now, boots, resets, args, tb_msg, posts, led,
                   toggles, err, prior,
                   locals, wlan, out>>

\* flash_led(count, interval) is entered: led = Pin("LED", Pin.OUT), and the
\* loop for _ in range(count) has made no iteration yet
flash_led(count, interval) ==
    locals' = [traceback_file |-> locals.traceback_file,
               count |-> count, interval |-> interval, done |-> 0]

\* handle_exception calls flash_led(3000, 3): the degraded signal starts
FlashStart ==
    /\ pc = "h_flash"
    /\ flash_led(FlashCount, FlashInterval)
    /\ trace' = Append(trace, "flash")
    /\ pc' = "flashing"
    /\ UNCHANGED <<files, now, boots, resets, args, tb_msg, posts, openResp,
                   led, toggles, err, prior, wlan, out>>

\* one iteration of flash_led's loop: led.toggle(); time.sleep(interval)
FlashToggle ==
    /\ pc = "flashing"
    /\ locals.done < locals.count
    /\ led' = IF led = "on" THEN "off" ELSE "on"
    /\ toggles' = toggles + 1
    /\ now' = now + locals.interval
    /\ locals' = [locals EXCEPT !.done = @ + 1]
    /\ UNCHANGED <<files, pc, boots, resets, args, tb_msg, trace, posts,
                   openResp, err, prior, wlan, out>>

\* the else of handle_exception lost: after the flash the call falls through
\* to reset()
FlashLedThenReset ==
    /\ pc = "flashing"
    /\ locals.done = locals.count
    /\ led' = "off"
    /\ trace' = Append(Append(trace, "flash_done"), "reset")
    /\ resets' = resets + 1
    /\ boots' = boots + 1
    /\ pc' = "running"
    /\ UNCHANGED <<files, now, args, tb_msg, posts, openResp, toggles, err,
                   prior, locals, wlan, out>>

\* flash_led's loop is over: led.off(), flash_led returns and handle_exception
\* returns to its caller
FlashLed ==
    /\ pc = "flashing"
    /\ locals.done = locals.count
    /\ led' = "off"
    /\ trace' = Append(trace, "flash_done")
    /\ pc' = "returned"
    /\ UNCHANGED <<files, now, boots, resets, args, tb_msg, posts, openResp,
                   toggles, err, prior, locals, wlan, out>>

\* reset(): the process ends and the device boots again; only the file system
\* survives.
Reset ==
    /\ pc = "h_reset"
    /\ resets' = resets + 1
    /\ boots' = boots + 1
    /\ trace' = Append(trace, "reset")
    /\ pc' = "running"
    /\ args' = NoArgs
    /\ tb_msg' = <<>>
    /\ led' = "off"
    /\ UNCHANGED <<files, now, posts, openResp, toggles, err, prior,
                   locals, wlan, out>>

Next ==
    \/ \E exc \in Exceptions, h \in Hostnames, u \in NotifyUrls, t \in ClockValues :
          Fault(exc, h, u, t)
    \/ TprintCrash
    \/ LogTracebackPrint
    \/ \E outcome \in {"ok", "open_raises", "write_raises"}, tick \in HalfSecondTicks,
          written \in WrittenCounts : LogTracebackWrite(outcome, tick, written)
    \/ Guard
    \/ \E ok \in BOOLEAN : Post(ok)
    \/ Close
    \/ FlashStart
    \/ FlashToggle
    \/ FlashLed
    \/ Reset

Spec == Init /\ [][Next]_vars

-----------------------------------------------------------------------------
(* Vocabulary of the fault handler's properties *)

Did(ev) == \E i \in 1..Len(trace) : trace[i] = ev
Before(a, b) ==
    \E i \in 1..Len(trace), j \in 1..Len(trace) : i < j /\ trace[i] = a /\ trace[j] = b
Last(ev) == trace # <<>> /\ trace[Len(trace)] = ev

\* handle_exception is over: it returned, an exception left it, or it reset
HandlerEnded == pc \in {"returned", "raised"} \/ (pc = "running" /\ Last("reset"))

PriorCount == Cardinality(FaultRecords(prior))
RecordCount == Cardinality(FaultRecords(files))

\* the payload C4 describes: machine = hostname, traceback = the detail text
Payload == <<<<"machine", args.hostname>>, <<"traceback", print_exception(args.exc)>>>>

(* C1: starting from a store with no fault record, whatever the clock reads
   at each fault, handle_exception calls reset at most
   MAX_EXCEPTION_RESETS_ALLOWED times over all boots. *)
C1_BoundedCrashLoop == resets <= MAX_EXCEPTION_RESETS_ALLOWED

(* C3: with 0, 1 or 2 fault records persisted when handle_exception is called,
   the call writes the new record (one more record than before), then resets,
   and neither posts nor flashes. *)
C3_RecoverableRestarts ==
    (HandlerEnded /\ PriorCount \in 0..2) =>
        /\ Before("write", "reset")
        /\ RecordCount = PriorCount + 1
        /\ posts = <<>>
        /\ ~Did("flash")

(* C4: with 3 fault records persisted when handle_exception is called, the
   call writes a 4th record, then posts exactly once to notify_url the payload
   {machine: hostname, traceback: detail}, then starts the degraded flash, and
   never resets. *)
C4_ExhaustedEscalates ==
    (HandlerEnded /\ PriorCount = 3) =>
        /\ RecordCount = 4
        /\ posts = <<[url |-> args.notify_url, data |-> Payload]>>
        /\ Before("write", "post")
        /\ Before("post", "flash")
        /\ ~Did("reset")

(* C5: when the escalation POST raises, the failure is ignored: no exception
   leaves handle_exception, no response is left open, the POST is not
   repeated, and the degraded flash is still started. *)
C5_PostFailureIgnored ==
    (HandlerEnded /\ Did("post_raised")) =>
        /\ err = "none"
        /\ openResp = 0
        /\ Len(posts) = 1
        /\ Did("flash")

(* C6: every call of handle_exception, whatever the storage write and the POST
   do, ends either in a reset, or in a POST followed by the degraded flash,
   never both, and neither before the record write and the guard's verdict. *)
C6_ExactlyOneTerminalOutcome ==
    /\ HandlerEnded =>
          \/ Did("reset") /\ posts = <<>> /\ ~Did("flash")
          \/ ~Did("reset") /\ posts # <<>> /\ Did("flash")
    /\ (Did("reset") \/ posts # <<>>) => Before("write", "guard")

(* C7 as stated: once the degraded flash has started, the program never
   leaves that state. *)
C7_DegradedNeverLeft == [][pc = "flashing" => pc' = "flashing"]_vars

DegradedStep ==
    pc = "flashing" =>
        /\ pc' \in {"flashing", "returned"}
        /\ files' = files /\ posts' = posts /\ openResp' = openResp
        /\ resets' = resets /\ boots' = boots
        /\ toggles <= FlashCount
        /\ (pc' = "flashing" =>
               /\ toggles' = toggles + 1 /\ toggles' <= FlashCount
               /\ led' # led
               /\ now' = now + FlashInterval)
        /\ (pc' = "returned" =>
               toggles = FlashCount /\ toggles' = FlashCount /\ led' = "off")

(* C7 as amended: once the degraded flash has started, handle_exception calls
   no reset, sends no further POST and writes no further record; the flash is
   bounded (each step in it is one toggle of the indicator followed by a
   sleep of 3 seconds, 3000 toggles at most),
   and the only step out of it is flash_led(3000, 3) finishing (3000
   toggles, indicator off) and handle_exception returning to its caller. *)
C7_DegradedThenReturns == [][DegradedStep]_vars

C7_Witness ==
    /\ pc = "returned" /\ Did("flash") /\ Last("flash_done")
    /\ toggles = FlashCount /\ led = "off"

-----------------------------------------------------------------------------
(* The crash-loop guard called on its own, on any directory and threshold *)

MaxThreshold == 4
MaxCalls == 3

\* Directories: any set of timestamped fault records and of other files
GuardNames == {traceback_file(t) : t \in ClockValues} \cup ForeignNames
GuardStores ==
    {[n \in S |-> [mtime |-> 0, data |-> <<>>]] : S \in SUBSET GuardNames}

InitGuard ==
    /\ files \in GuardStores
    /\ args \in [max_exception_resets : 0..MaxThreshold]
    /\ pc = "g_call"
    /\ now = ClockBase /\ boots = 1 /\ resets = 0 /\ tb_msg = <<>> /\ trace = <<>>
    /\ posts = <<>> /\ openResp = 0 /\ led = "off" /\ toggles = 0
    /\ err = "none" /\ prior = files
    /\ locals = NoLocals /\ wlan = NoWlan /\ out = "none"

\* the guard mutated: once the budget is exceeded it clears the logs it
\* counted
GuardCallClearing ==
    /\ pc \in {"g_call", "g_returned"}
    /\ Len(trace) < MaxCalls
    /\ out' = max_reset_attempts_exceeded(files, args.max_exception_resets)
    /\ files' = IF out'
                THEN [n \in {m \in DOMAIN files : ~endswith_log(m)} |-> files[n]]
                ELSE files
    /\ trace' = Append(trace, "guard_call")
    /\ pc' = "g_returned"
    /\ UNCHANGED <<now, args, led, err, prior, locals, wlan>>
    /\ UNCHANGED supVars

\* max_reset_attempts_exceeded(max_exception_resets) is called and returns;
\* it can be called again
GuardCall ==
    /\ pc \in {"g_call", "g_returned"}
    /\ Len(trace) < MaxCalls
    /\ out' = max_reset_attempts_exceeded(files, args.max_exception_resets)
    /\ trace' = Append(trace, "guard_call")
    /\ pc' = "g_returned"
    /\ UNCHANGED <<files, now, args, led, err, prior, locals, wlan>>
    /\ UNCHANGED supVars

NextGuard == GuardCall

SpecGuard == InitGuard /\ [][NextGuard]_vars

(* C2: with n fault records persisted, max_reset_attempts_exceeded(max_resets)
   returns false when n <= max_resets and true when n > max_resets. *)
C2_GuardThreshold ==
    pc = "g_returned" =>
        out = (Cardinality(FaultRecords(files)) > args.max_exception_resets)

-----------------------------------------------------------------------------
(* wifi_connect(wlan, ssid, password, connection_attempts, sleep_seconds_interval) *)

MaxAttempts == 4
DefaultConnectionAttempts == 10
DefaultSleepInterval == 3

AttemptValues == (1..MaxAttempts) \cup {DefaultConnectionAttempts}

\* sleep_seconds_interval, in whole seconds
SleepIntervals == {1, DefaultSleepInterval}

\* The radio: isconnected() returns true from its firstTrue-th call on, and
\* never when firstTrue = 0.
RadioScripts == 0..(DefaultConnectionAttempts + 1)

isconnected(w) == w.firstTrue # 0 /\ w.polls >= w.firstTrue

InitWifi ==
    /\ args \in [ssid : {"home"}, password : {"secret"},
                 connection_attempts : AttemptValues,
                 sleep_seconds_interval : SleepIntervals]
    /\ wlan \in [active : {FALSE}, connects : {<<>>}, polls : {0},
                 firstTrue : RadioScripts]
    /\ led \in {"off", "on"}
    /\ locals = NoLocals
    /\ pc = "w_start"
    /\ trace = <<>>
    /\ out = "none"
    /\ files = [n \in {} |-> 0]
    /\ now = ClockBase /\ boots = 1 /\ resets = 0 /\ tb_msg = <<>>
    /\ posts = <<>> /\ openResp = 0 /\ toggles = 0
    /\ err = "none" /\ prior = files

\* led.off() on entry lost: the pin keeps the state it had
WifiLedKept ==
    /\ pc = "w_start"
    /\ led' = led
    /\ trace' = Append(trace, "led_off")
    /\ pc' = "w_active"
    /\ UNCHANGED <<files, now, args, err, prior, locals, wlan, out>>
    /\ UNCHANGED supVars

\* led = Pin("LED", Pin.OUT); led.off()
WifiLedOff ==
    /\ pc = "w_start"
    /\ led' = "off"
    /\ trace' = Append(trace, "led_off")
    /\ pc' = "w_active"
    /\ UNCHANGED <<files, now, args, err, prior, locals, wlan, out>>
    /\ UNCHANGED supVars

\* wlan.active(True)
WifiActivate ==
    /\ pc = "w_active"
    /\ wlan' = [wlan EXCEPT !.active = TRUE]
    /\ trace' = Append(trace, "active")
    /\ pc' = "w_sleep"
    /\ UNCHANGED <<files, now, args, led, err, prior, locals, out>>
    /\ UNCHANGED supVars

\* time.sleep(sleep_seconds_interval), with the radio on and before the
\* counter has its first value
WifiSleep ==
    /\ pc = "w_sleep"
    /\ now' = now + args.sleep_seconds_interval
    /\ pc' = "w_counter"
    /\ UNCHANGED <<files, args, trace, led, err, prior, locals, wlan, out>>
    /\ UNCHANGED supVars

\* the counter's first value mutated: counter = 0
WifiCounterFromZero ==
    /\ pc = "w_counter"
    /\ locals' = [counter |-> 0]
    /\ pc' = "w_connect"
    /\ UNCHANGED <<files, now, args, trace, led, err, prior, wlan, out>>
    /\ UNCHANGED supVars

\* counter = 1
WifiCounter ==
    /\ pc = "w_counter"
    /\ locals' = [counter |-> 1]
    /\ pc' = "w_connect"
    /\ UNCHANGED <<files, now, args, trace, led, err, prior, wlan, out>>
    /\ UNCHANGED supVars

\* wlan.connect(ssid, password)
WifiConnect ==
    /\ pc = "w_connect"
    /\ wlan' = [wlan EXCEPT !.connects = Append(@, <<args.ssid, args.password>>)]
    /\ trace' = Append(trace, "connect")
    /\ pc' = "w_poll"
    /\ UNCHANGED <<files, now, args, led, err, prior, locals, out>>
    /\ UNCHANGED supVars

\* while not wlan.isconnected():
WifiPoll ==
    /\ pc = "w_poll"
    /\ wlan' = [wlan EXCEPT !.polls = @ + 1]
    /\ trace' = Append(trace, IF isconnected(wlan') THEN "poll_true" ELSE "poll_false")
    /\ pc' = IF isconnected(wlan') THEN "w_led_on" ELSE "w_body"
    /\ UNCHANGED <<files, now, args, led, err, prior, locals, out>>
    /\ UNCHANGED supVars

\* the test of the loop body mutated: counter >= connection_attempts
WifiLoopBodyOffByOne ==
    /\ pc = "w_body"
    /\ now' = now + args.sleep_seconds_interval
    /\ locals' = [counter |-> locals.counter + 1]
    /\ pc' = IF locals'.counter >= args.connection_attempts
             THEN "w_reset" ELSE "w_poll"
    /\ UNCHANGED <<files, args, trace, led, err, prior, wlan, out>>
    /\ UNCHANGED supVars

\* the loop body: time.sleep(sleep_seconds_interval); counter += 1;
\* if counter > connection_attempts:
WifiLoopBody ==
    /\ pc = "w_body"
    /\ now' = now + args.sleep_seconds_interval
    /\ locals' = [counter |-> locals.counter + 1]
    /\ pc' = IF locals'.counter > args.connection_attempts
             THEN "w_reset" ELSE "w_poll"
    /\ UNCHANGED <<files, args, trace, led, err, prior, wlan, out>>
    /\ UNCHANGED supVars

\* the restart mutated: the failure is recorded as a fault before reset()
WifiResetLogging(tick) ==
    /\ pc = "w_reset"
    /\ now' = now + tick
    /\ files' = write_file(files, traceback_file(now), now',
                           <<"WIFI: Max connection attempts exceeded">>)
    /\ trace' = Append(trace, "reset")
    /\ pc' = "rebooted"
    /\ UNCHANGED <<args, led, err, prior, locals, wlan, out>>
    /\ UNCHANGED supVars

\* print("WIFI: Max connection attempts exceeded. ..."); time.sleep(0.5);
\* reset(): the process ends
WifiReset(tick) ==
    /\ pc = "w_reset"
    /\ now' = now + tick
    /\ trace' = Append(trace, "reset")
    /\ pc' = "rebooted"
    /\ UNCHANGED <<files, args, led, err, prior, locals, wlan, out>>
    /\ UNCHANGED supVars

\* led.on(); print("WIFI: Successfully connected to network"); return
WifiLedOn ==
    /\ pc = "w_led_on"
    /\ led' = "on"
    /\ trace' = Append(trace, "led_on")
    /\ out' = "connected"
    /\ pc' = "w_returned"
    /\ UNCHANGED <<files, now, args, err, prior, locals, wlan>>
    /\ UNCHANGED supVars

NextWifi ==
    \/ WifiLedOff
    \/ WifiActivate
    \/ WifiSleep
    \/ WifiCounter
    \/ WifiConnect
    \/ WifiPoll
    \/ WifiLoopBody
    \/ \E tick \in HalfSecondTicks : WifiReset(tick)
    \/ WifiLedOn

\* One thread of control, and every sleep ends: the call keeps stepping.
SpecWifi == InitWifi /\ [][NextWifi]_vars /\ WF_vars(NextWifi)

Count(ev) == Cardinality({i \in 1..Len(trace) : trace[i] = ev})

NeverConnects == wlan.firstTrue = 0

C8_Safe ==
    NeverConnects =>
        /\ Count("reset") <= 1
        /\ (Did("reset") => wlan.polls = args.connection_attempts
                            /\ Count("poll_false") = args.connection_attempts)
        /\ (pc = "rebooted" => Count("reset") = 1)
        /\ pc \notin {"w_led_on", "w_returned"}
        /\ out # "connected"
        /\ ~Did("led_on")
        /\ (pc # "w_start" => led = "off")

(* C8: with a radio whose isconnected() never returns true, for every
   connection_attempts >= 1, wifi_connect calls reset exactly once, after
   exactly connection_attempts polls have returned false and never after
   fewer; it never returns as connected and never switches the indicator
   on. *)
C8_NeverConnectedResetsOnce ==
    /\ []C8_Safe
    /\ (NeverConnects ~> (pc = "rebooted" /\ Count("reset") = 1))

C8_Witness ==
    /\ NeverConnects
    /\ pc = "rebooted"
    /\ args.connection_attempts = DefaultConnectionAttempts
    /\ wlan.polls = DefaultConnectionAttempts

SucceedsInTime ==
    wlan.firstTrue >= 1 /\ wlan.firstTrue <= args.connection_attempts

C9_Safe ==
    SucceedsInTime =>
        /\ ~Did("reset")
        /\ pc \notin {"w_reset", "rebooted"}
        /\ Len(wlan.connects) <= 1
        /\ wlan.polls <= wlan.firstTrue
        /\ (pc \in {"w_led_on", "w_returned"} =>
                /\ wlan.polls = wlan.firstTrue
                /\ wlan.connects = <<<<args.ssid, args.password>>>>)
        /\ (out = "connected" <=> pc = "w_returned")

(* C9: with a radio whose isconnected() first returns true on the K-th poll,
   1 <= K <= connection_attempts, wifi_connect returns connected after exactly
   K polls, never calls reset, and has called connect(ssid, password) exactly
   once. *)
C9_ConnectsAfterKPolls ==
    /\ []C9_Safe
    /\ (SucceedsInTime ~> (pc = "w_returned" /\ wlan.polls = wlan.firstTrue))

C9_Witness ==
    /\ pc = "w_returned"
    /\ wlan.firstTrue = args.connection_attempts
    /\ args.connection_attempts = MaxAttempts
    /\ wlan.polls = MaxAttempts

-----------------------------------------------------------------------------
(* purge_old_log_files(max_age) *)

\* the age computed without the "% 86400"
get_file_age_unwrapped(fs, filename, t) == (t - fs[filename].mtime) \div 3600

\* int(((time.time() - os.stat(filename)[8]) % 86400) // 3600)
get_file_age(fs, filename, t) == ((t - fs[filename].mtime) % 86400) \div 3600

\* The clock when the purge runs, and the ages, in hours, of the files it
\* finds: the retention test's two sides (48 is the default max_age), ages
\* within and beyond one day.
PurgeNow == 100 * 3600
AgeHours == {10, 47, 49, 50, 72}
MaxAgeValues == {TRACE_LOG_MAX_KEEP_TIME, 23, 12}

PurgeRecordNames == {traceback_file(ClockBase + k) : k \in 0..3}
PurgeNames == PurgeRecordNames \cup {<<"boot", "log">>, <<"main", "py">>}

AgesOf(n) ==
    IF IsFaultRecord(n) THEN AgeHours
    ELSE IF endswith_log(n) THEN {47, 72} ELSE {72}

PurgeStores ==
    UNION {
        {fs \in [S -> [mtime : {PurgeNow - h * 3600 : h \in AgeHours}, data : {<<>>}]] :
            \A n \in S : \E h \in AgesOf(n) : fs[n].mtime = PurgeNow - h * 3600}
        : S \in SUBSET PurgeNames}

InitPurge ==
    /\ files \in PurgeStores
    /\ now = PurgeNow
    /\ args \in [max_age : MaxAgeValues]
    /\ pc = "p_start"
    /\ locals = NoLocals
    /\ trace = <<>>
    /\ out = "none"
    /\ err = "none"
    /\ prior = files
    /\ boots = 1 /\ resets = 0 /\ tb_msg = <<>> /\ posts = <<>>
    /\ openResp = 0 /\ led = "off" /\ toggles = 0 /\ wlan = NoWlan

\* files = os.listdir(); tprint("PURG: Purging trace logs over ...")
PurgeListdir(ok) ==
    /\ pc = "p_start"
    /\ IF ok
       THEN /\ locals' = [todo |-> DOMAIN files, found_count |-> 0,
                          del_count |-> 0, deletions |-> FALSE]
            /\ trace' = Append(trace, "listdir")
            /\ pc' = "p_loop"
            /\ err' = err
       ELSE /\ locals' = locals
            /\ trace' = Append(trace, "listdir_raised")
            /\ pc' = "raised"
            /\ err' = "OSError"
    /\ UNCHANGED <<files, now, args, led, prior, wlan, out>>
    /\ UNCHANGED supVars

\* One iteration of "for file in files": get_file_age(file), the suffix test,
\* the age test and os.remove(file). os.listdir() fixes no order; os.stat and
\* os.remove can raise OSError.
PurgeVisit(file, outcome) ==
    /\ pc = "p_loop"
    /\ file \in locals.todo
    /\ \/ /\ outcome = "stat_raises"
          /\ locals' = locals
          /\ files' = files
          /\ trace' = Append(trace, "stat_raised")
          /\ pc' = "raised"
          /\ err' = "OSError"
       \/ /\ outcome = "ok"
          /\ ~endswith_log(file)
          /\ locals' = [locals EXCEPT !.todo = @ \ {file}]
          /\ UNCHANGED <<files, trace, pc, err>>
       \/ /\ outcome = "ok"
          /\ endswith_log(file)
          /\ ~(get_file_age(files, file, now) > args.max_age)
          /\ locals' = [locals EXCEPT !.todo = @ \ {file}, !.found_count = @ + 1]
          /\ UNCHANGED <<files, trace, pc, err>>
       \/ /\ outcome = "ok"
          /\ endswith_log(file)
          /\ get_file_age(files, file, now) > args.max_age
          /\ files' = [n \in DOMAIN files \ {file} |-> files[n]]
          /\ locals' = [locals EXCEPT !.todo = @ \ {file}, !.found_count = @ + 1,
                                      !.del_count = @ + 1, !.deletions = TRUE]
          /\ UNCHANGED <<trace, pc, err>>
       \/ /\ outcome = "remove_raises"
          /\ endswith_log(file)
          /\ get_file_age(files, file, now) > args.max_age
          /\ locals' = [locals EXCEPT !.found_count = @ + 1]
          /\ files' = files
          /\ trace' = Append(trace, "remove_raised")
          /\ pc' = "raised"
          /\ err' = "OSError"
    /\ UNCHANGED <<now, args, led, prior, wlan, out>>
    /\ UNCHANGED supVars

\* the report after the loop, and the return
PurgeReport ==
    /\ pc = "p_loop"
    /\ locals.todo = {}
    /\ out' = IF locals.deletions
              THEN [found |-> locals.found_count, deleted |-> locals.del_count]
              ELSE [found |-> locals.found_count, deleted |-> 0]
    /\ trace' = Append(trace, "report")
    /\ pc' = "p_returned"
    /\ UNCHANGED <<files, now, args, led, err, prior, locals, wlan>>
    /\ UNCHANGED supVars

NextPurge ==
    \/ \E ok \in BOOLEAN : PurgeListdir(ok)
    \/ \E file \in PurgeNames, outcome \in {"ok", "stat_raises", "remove_raises"} :
          PurgeVisit(file, outcome)
    \/ PurgeReport

SpecPurge == InitPurge /\ [][NextPurge]_vars

\* the age of a file in whole hours
AgeInHours(fs, n, t) == (t - fs[n].mtime) \div 3600

Expired == {n \in FaultRecords(prior) : AgeInHours(prior, n, now) > args.max_age}

(* C10: purge_old_log_files(max_age) deletes exactly the fault records whose
   age in hours exceeds max_age and keeps all other files, and reports
   found = the number of fault records and deleted = the number removed. *)
C10_PurgeDeletesExpired ==
    pc = "p_returned" =>
        /\ DOMAIN files = DOMAIN prior \ Expired
        /\ out.found = Cardinality(FaultRecords(prior))
        /\ out.deleted = Cardinality(Expired)


\* purge_old_log_files is over: it returned or an exception left it
PurgeEnded == pc \in {"p_returned", "raised"}

(* C11: purge_old_log_files never fails its caller because of a per-file
   error: when os.stat or os.remove fails on one file the purge goes on and
   ends with its found/deleted report; only a failing os.listdir aborts it. *)
C11_PurgeSurvivesFileErrors ==
    /\ (PurgeEnded /\ ~Did("listdir_raised")) =>
          pc = "p_returned" /\ err = "none" /\ Did("report")
    /\ Did("listdir_raised") => pc = "raised"


-----------------------------------------------------------------------------
(* ota_update_interval_exceeded(ota_timer, interval) *)

MaxOtaClock == 4
OTA_CHECK_TIMER == 28800

\* Clock readings and timestamps: small values, and values one default
\* interval apart; either may be the larger (the clock can be set backward)
OtaTimes == (0..MaxOtaClock) \cup {OTA_CHECK_TIMER + k : k \in 0..MaxOtaClock}
OtaIntervals == (0..MaxOtaClock) \cup {OTA_CHECK_TIMER}

\* int(x): time.time() and ota_timer are whole seconds, and int() of an
\* integer is that integer
int(x) == x

\* the boundary test mutated: ota_elapsed >= interval
ota_update_interval_reached(t, ota_timer, interval) ==
    LET ota_elapsed == int(t - ota_timer)
    IN  IF ota_elapsed >= interval THEN TRUE ELSE FALSE

\* exceeded = False; ota_elapsed = int(time.time() - ota_timer);
\* if ota_elapsed > interval: exceeded = True; return exceeded
ota_update_interval_exceeded(t, ota_timer, interval) ==
    LET ota_elapsed == int(t - ota_timer)
    IN  IF ota_elapsed > interval THEN TRUE ELSE FALSE

InitOta ==
    /\ now \in OtaTimes
    /\ args \in [ota_timer : OtaTimes, interval : OtaIntervals]
    /\ pc = "o_call"
    /\ out = "none"
    /\ err = "none"
    /\ trace = <<>>
    /\ files = [n \in {} |-> 0]
    /\ prior = [n \in {} |-> 0]
    /\ boots = 1 /\ resets = 0 /\ tb_msg = <<>> /\ posts = <<>>
    /\ openResp = 0 /\ led = "off" /\ toggles = 0
    /\ locals = NoLocals /\ wlan = NoWlan

\* the run loop calls ota_update_interval_exceeded(ota_timer, interval)
OtaCall ==
    /\ pc = "o_call"
    /\ out' = ota_update_interval_exceeded(now, args.ota_timer, args.interval)
    /\ pc' = "o_returned"
    /\ UNCHANGED <<files, now, args, trace, led, err, prior, locals, wlan>>
    /\ UNCHANGED supVars

NextOta == OtaCall

SpecOta == InitOta /\ [][NextOta]_vars

(* C12: ota_update_interval_exceeded(t, interval) returns true iff
   now - t > interval: false when now - t <= interval, now = t and now < t
   (clock set backward) included, without raising; true when
   now - t > interval. *)
C12_IntervalGate ==
    pc = "o_returned" =>
        /\ err = "none"
        /\ (now - args.ota_timer <= args.interval => out = FALSE)
        /\ (now - args.ota_timer > args.interval => out = TRUE)
        /\ (now <= args.ota_timer => out = FALSE)

C12_Witness ==
    /\ pc = "o_returned"
    /\ now - args.ota_timer = args.interval
    /\ args.interval = OTA_CHECK_TIMER
    /\ out = FALSE


GuardPureStep ==
    /\ files' = files
    /\ (pc = "g_returned" => out' = out)

(* C13: max_reset_attempts_exceeded creates, modifies and deletes no file, so
   consecutive calls with nothing in between see the same directory and
   return the same verdict. *)
C13_GuardIsPureQuery == [][GuardPureStep]_vars

C13_Witness ==
    /\ pc = "g_returned"
    /\ Len(trace) = MaxCalls
    /\ out = TRUE
    /\ files = prior


\* the directory without file n
Without(fs, n) == [m \in DOMAIN fs \ {n} |-> fs[m]]

(* C14: the guard's verdict depends only on the fault records, the files
   named <timestamp>-traceback.log: removing (or adding) a file that is not a
   fault record, another .log file for example, never changes the result of
   max_reset_attempts_exceeded. *)
C14_OnlyFaultRecordsCount ==
    pc = "g_returned" =>
        \A n \in DOMAIN files :
            ~IsFaultRecord(n) =>
                out = max_reset_attempts_exceeded(Without(files, n),
                                                  args.max_exception_resets)



-----------------------------------------------------------------------------
(* log_traceback called on its own, on any store of fault records, with any
   of two faults, so that a record can hold another text than the one being
   written *)

LogExceptions == {"ValueError", "OSError"}
LogStores ==
    {[n \in DOMAIN d \cup S |->
         IF n \in DOMAIN d
         THEN [mtime |-> ClockBase, data |-> print_exception(d[n])]
         ELSE [mtime |-> 0, data |-> <<>>]] :
        d \in UNION {[N -> LogExceptions] :
                        N \in SUBSET {traceback_file(t) : t \in ClockValues}},
        S \in SUBSET {<<"boot", "log">>}}

InitLog ==
    /\ files \in LogStores
    /\ now \in ClockValues
    /\ args \in [exc : LogExceptions]
    /\ pc = "lt_print"
    /\ boots = 1 /\ resets = 0 /\ tb_msg = <<>> /\ trace = <<>>
    /\ posts = <<>> /\ openResp = 0 /\ led = "off" /\ toggles = 0
    /\ err = "none" /\ prior = files
    /\ locals = NoLocals /\ wlan = NoWlan /\ out = "none"

NextLog ==
    \/ LogTracebackPrint
    \/ \E outcome \in {"ok", "open_raises", "write_raises"}, tick \in HalfSecondTicks,
          written \in WrittenCounts : LogTracebackWrite(outcome, tick, written)

SpecLog == InitLog /\ [][NextLog]_vars

\* the step of log_traceback in which open and f.write complete
WriteCompletes == pc = "lt_write" /\ pc' = "h_guard"

CollisionStep ==
    WriteCompletes =>
        LET name == locals.traceback_file
        IN  /\ name \in DOMAIN files'
            /\ files'[name].data = tb_msg
            /\ err' = "none"
            /\ \A n \in DOMAIN files \ {name} :
                  n \in DOMAIN files' /\ files'[n] = files[n]
            /\ Cardinality(FaultRecords(files')) =
                  IF name \in DOMAIN files
                  THEN Cardinality(FaultRecords(files))
                  ELSE Cardinality(FaultRecords(files)) + 1

(* C15: when log_traceback writes while a record with the same
   timestamp-derived name exists, that record is silently replaced by the new
   detail, no error is raised and the record count stays the same; with a
   name not yet present the count grows by exactly one. (Writes that
   complete; a write that raises is C17's case.) *)
C15_SameSecondOverwrites == [][CollisionStep]_vars


C15_Witness ==
    /\ pc = "h_guard"
    /\ locals.traceback_file \in DOMAIN prior
    /\ prior[locals.traceback_file].data # tb_msg
    /\ files[locals.traceback_file].data = tb_msg
    /\ RecordCount = PriorCount
    /\ PriorCount >= 2


(* C16: get_file_age returns ((now - mtime) mod 86400) div 3600: for every
   file with mtime <= now the reported age is in 0..23 and wraps every 24
   hours (a 50-hour-old file reports 2); so purge_old_log_files with
   max_age >= 23, the default 48 included, never deletes a file, however old
   it is. *)
C16_AgeWrapsAtOneDay ==
    /\ \A n \in DOMAIN files :
          files[n].mtime <= now =>
              /\ get_file_age(files, n, now) \in 0..23
              /\ get_file_age(files, n, now) = AgeInHours(files, n, now) % 24
              /\ (AgeInHours(files, n, now) = 50 => get_file_age(files, n, now) = 2)
    /\ args.max_age >= 23 => files = prior /\ ~Did("remove_raised")
    /\ (pc = "p_returned" /\ args.max_age >= 23) => out.deleted = 0

C16_Witness ==
    /\ pc = "p_returned"
    /\ args.max_age = TRACE_LOG_MAX_KEEP_TIME
    /\ \E n \in FaultRecords(files) : AgeInHours(files, n, now) = 72
    /\ \E n \in FaultRecords(files) : AgeInHours(files, n, now) = 50
    /\ out.found >= 2



PrintedBeforeWrite ==
    /\ Did("write") => Before("print_output", "write")
    /\ Did("write_failed") => Before("print_output", "write_failed")

(* C17 as stated: the fault text is printed before the write is attempted;
   when the write fails the text has been printed, no fault record is
   created (the record count is unchanged) and the failure reaches the
   caller as an error. *)
C17_FailedWriteLeavesNoRecord ==
    /\ PrintedBeforeWrite
    /\ Did("write_failed") =>
          /\ RecordCount = PriorCount
          /\ err = "OSError" /\ pc = "raised"

(* C17 as amended: the fault text is printed before the write is attempted;
   when the write fails the text has been printed and the failure reaches
   the caller as an error; no record holding the fault text is created: the
   directory is unchanged when open() raises, and when f.write() raises
   after open() succeeded the file of that name is left with none or only a
   first part of the text, so the record count is unchanged or one
   higher. *)
C17_FailedWriteLeavesNoText ==
    /\ PrintedBeforeWrite
    /\ Did("write_failed") =>
          /\ err = "OSError" /\ pc = "raised"
          /\ posts = <<>> /\ ~Did("reset")
          /\ \/ files = prior
             \/ \E written \in 0..(Len(tb_msg) - 1) :
                   files = write_file(prior, locals.traceback_file, now,
                                      SubSeq(tb_msg, 1, written))
          /\ \A n \in DOMAIN files :
                files[n].data = tb_msg => n \in DOMAIN prior /\ files[n] = prior[n]
          /\ RecordCount \in {PriorCount, PriorCount + 1}

C17_Witness ==
    /\ pc = "raised"
    /\ Did("write_failed")
    /\ RecordCount = PriorCount + 1
    /\ files[locals.traceback_file].data = SubSeq(tb_msg, 1, 1)


Polled == Did("poll_true") \/ Did("poll_false")

(* C18: in wifi_connect the indicator is switched off on entry and stays off
   until isconnected() has been seen true; it is switched on only on the
   success path, never on the path that resets; the radio is activated
   before the single connect(ssid, password) call, which precedes the first
   poll. *)
C18_IndicatorAndOrdering ==
    /\ pc # "w_start" => trace[1] = "led_off"
    /\ (pc # "w_start" /\ ~Did("poll_true")) => led = "off"
    /\ (pc # "w_start" /\ led = "on") => Before("poll_true", "led_on")
    /\ Did("led_on") => ~Did("reset") /\ Last("led_on") /\ Count("poll_true") = 1
    /\ Did("reset") => led = "off" /\ ~Did("led_on") /\ ~Did("poll_true")
    /\ Did("connect") =>
          /\ Count("connect") = 1
          /\ Before("active", "connect")
          /\ wlan.active
          /\ wlan.connects = <<<<args.ssid, args.password>>>>
    /\ Polled => Did("connect") /\ ~Before("poll_false", "connect")
                 /\ ~Before("poll_true", "connect")
    /\ wlan.polls > 0 <=> Polled

C18_Witness ==
    /\ pc = "w_returned"
    /\ led = "on"
    /\ Count("poll_false") >= 2
    /\ Before("active", "connect")
    /\ Before("connect", "poll_false")


-----------------------------------------------------------------------------
(* Boots, one after another: after a start the program calls wifi_connect or
   time_sync; a call that returns gives control back to the program, which
   may call again; a call that resets starts the device again.  Only the
   file system survives a start.  Neither function calls handle_exception. *)

BootAttempts == {1, 2}
BootScripts == {0, 1, 2}
BootClock == ClockBase
\* the times the NTP server answers with
NtpTimes == {ClockBase + 1, ClockBase + MaxClock}
BootRecordNames == {traceback_file(t) : t \in ClockValues}
BootStores ==
    {[n \in S |-> [mtime |-> 0, data |-> <<>>]] :
        S \in {{}, {<<"boot", "log">>}, BootRecordNames,
               BootRecordNames \ {traceback_file(ClockBase)},
               BootRecordNames \cup {<<"boot", "log">>}}}

StartupPcs == {"w_start", "w_active", "w_sleep", "w_counter", "w_connect", "w_poll", "w_body",
               "w_reset", "w_led_on", "w_returned",
               "ts_start", "ts_reset", "ts_returned", "rebooted"}
HandlerPcs == {"h_tprint", "lt_print", "lt_write", "h_guard", "h_post",
               "h_close", "h_flash", "flashing", "returned", "raised",
               "h_reset"}

InitBoot ==
    /\ files \in BootStores
    /\ pc = "booting"
    /\ now = BootClock /\ boots = 1 /\ resets = 0 /\ tb_msg = <<>>
    /\ trace = <<>> /\ posts = <<>> /\ openResp = 0 /\ toggles = 0
    /\ led = "off" /\ err = "none" /\ prior = files
    /\ args = NoArgs /\ locals = NoLocals /\ wlan = NoWlan /\ out = "none"

\* the program calls wifi_connect(ssid, password, connection_attempts,
\* sleep_seconds_interval) when the clock shows t; the radio answers true from
\* its firstTrue-th poll on
CallWifiConnect(connection_attempts, sleep_seconds_interval, firstTrue, t) ==
    /\ pc \in {"booting", "running"}
    /\ now' = t
    /\ args' = [ssid |-> "home", password |-> "secret",
                connection_attempts |-> connection_attempts,
                sleep_seconds_interval |-> sleep_seconds_interval]
    /\ wlan' = [NoWlan EXCEPT !.firstTrue = firstTrue]
    /\ locals' = NoLocals
    /\ prior' = files
    /\ trace' = <<>>
    /\ out' = "none"
    /\ pc' = "w_start"
    /\ UNCHANGED <<files, led, err>>
    /\ UNCHANGED supVars

\* the program calls time_sync() when the clock shows t
CallTimeSync(t) ==
    /\ pc \in {"booting", "running"}
    /\ now' = t
    /\ prior' = files
    /\ trace' = <<>>
    /\ out' = "none"
    /\ pc' = "ts_start"
    /\ UNCHANGED <<files, args, led, err, locals, wlan>>
    /\ UNCHANGED supVars

\* print("SYNC: ..."); try: ntptime.settime(), which sets the clock to the
\* time the NTP server gives; debug_print(...) and the function returns, or
\* except Exception as e
TimeSyncSettime(ok, ntp_time) ==
    /\ pc = "ts_start"
    /\ now' = IF ok THEN ntp_time ELSE now
    /\ trace' = Append(trace, IF ok THEN "settime" ELSE "settime_raised")
    /\ pc' = IF ok THEN "ts_returned" ELSE "ts_reset"
    /\ UNCHANGED <<files, args, led, err, prior, locals, wlan, out>>
    /\ UNCHANGED supVars

\* print(f"SYNC: Error setting system time: {e}"); time.sleep(0.5); reset()
TimeSyncReset(tick) ==
    /\ pc = "ts_reset"
    /\ now' = now + tick
    /\ trace' = Append(trace, "reset")
    /\ pc' = "rebooted"
    /\ UNCHANGED <<files, args, led, err, prior, locals, wlan, out>>
    /\ UNCHANGED supVars

\* wifi_connect or time_sync returned: the program goes on
AppResumes ==
    /\ pc \in {"w_returned", "ts_returned"}
    /\ pc' = "running"
    /\ UNCHANGED <<files, now, args, trace, led, err, prior, locals, wlan, out>>
    /\ UNCHANGED supVars

\* after reset() the device starts again: memory and pins are as after power
\* on, the files are as they were
Reboot ==
    /\ pc = "rebooted"
    /\ pc' = "booting"
    /\ args' = NoArgs
    /\ locals' = NoLocals
    /\ wlan' = NoWlan
    /\ led' = "off"
    /\ out' = "none"
    /\ UNCHANGED <<files, now, trace, err, prior>>
    /\ UNCHANGED supVars

NextBoot ==
    \/ \E a \in BootAttempts, i \in SleepIntervals, k \in BootScripts,
          t \in ClockValues : CallWifiConnect(a, i, k, t)
    \/ \E t \in ClockValues : CallTimeSync(t)
    \/ WifiLedOff
    \/ WifiActivate
    \/ WifiSleep
    \/ WifiCounter
    \/ WifiConnect
    \/ WifiPoll
    \/ WifiLoopBody
    \/ \E tick \in HalfSecondTicks : WifiReset(tick)
    \/ WifiLedOn
    \/ \E ok \in BOOLEAN, t \in NtpTimes : TimeSyncSettime(ok, t)
    \/ \E tick \in HalfSecondTicks : TimeSyncReset(tick)
    \/ AppResumes
    \/ Reboot

SpecBoot == InitBoot /\ [][NextBoot]_vars /\ WF_vars(NextBoot)

\* a start-up call is running or has just ended
InStartup == pc \in StartupPcs

\* wifi_connect and time_sync leave every file as it was when they were called
StartupFrame ==
    InStartup =>
        /\ files = prior
        /\ FaultRecords(files) = FaultRecords(prior)
        /\ log_file_count(files) = log_file_count(prior)
        /\ max_reset_attempts_exceeded(files, MAX_EXCEPTION_RESETS_ALLOWED)
              = max_reset_attempts_exceeded(prior, MAX_EXCEPTION_RESETS_ALLOWED)

\* no start-up call ever returns: every boot fails to connect or to sync
EveryBootFails == [](pc \notin {"w_returned", "ts_returned"})

OffNotifyPath == pc \notin HandlerPcs /\ posts = <<>> /\ toggles = 0

(* C19: wifi_connect and time_sync create, modify and delete no fault record,
   also on the path where they call reset, so the guard's record count is the
   same before and after the call; when every boot fails to connect or to
   sync time, the device restarts again and again without bound and never
   enters the notify/degraded path, whatever the number of fault records. *)
C19_StartupRestartsAreFree ==
    /\ [](StartupFrame)
    /\ EveryBootFails => ([]OffNotifyPath /\ []<>(pc = "rebooted"))

C19_Witness ==
    /\ pc = "rebooted"
    /\ Did("reset")
    /\ max_reset_attempts_exceeded(files, MAX_EXCEPTION_RESETS_ALLOWED)
    /\ RecordCount > MAX_EXCEPTION_RESETS_ALLOWED
    /\ files = prior

====
